---- MODULE Spec2Model ----
(***************************************************************************)
(* Model of util/parse_getdata_log.py: a single pass over the lines of a   *)
(* getdata debug log that correlates "Running getData", "Retrieving file " *)
(* and "Returning status" lines into rows of a CSV summary.                *)
(*                                                                         *)
(* Text is modelled as text: a log line is a TLA+ string, and the str      *)
(* methods the script uses (split, startswith, slicing, strip), strptime,  *)
(* strftime and the timedelta arithmetic are computed character by         *)
(* character.  A CSV row is the tuple of fields handed to csv.writer;      *)
(* quoting and line terminators belong to the csv module.                  *)
(***************************************************************************)
EXTENDS Integers, Sequences, FiniteSets, TLC

VARIABLES pc, log, out, starttime, datacenter, request, filename, status

vars == <<pc, log, out, starttime, datacenter, request, filename, status>>

\* The locals that make up the pending request.
pending == <<starttime, datacenter, request, filename>>

-----------------------------------------------------------------------------
(* Bounds of the model *)

\* Number of lines read from the log in one run.
MaxLines == 4

-----------------------------------------------------------------------------
(* Python values *)

\* None.  str.split() never yields a token holding whitespace, so this value
\* differs from every str the script can bind to datacenter.
None == " None"

\* A local that has not been assigned yet (reading it raises UnboundLocalError).
Unbound == " unbound"

\* starttime before its first assignment; datetime has no year 0.
NoTime == [year |-> 0, month |-> 0, day |-> 0, hour |-> 0, minute |-> 0, second |-> 0]

\* Result of a strptime call that raised.
ParseError == [year |-> -1, month |-> 0, day |-> 0, hour |-> 0, minute |-> 0, second |-> 0]

-----------------------------------------------------------------------------
(* str methods *)

CharAt(s, i) == SubSeq(s, i, i)

IsSpace(c) == c \in {" ", "\t", "\n", "\r", "\f"}

RECURSIVE SkipSpace(_, _)
SkipSpace(s, i) ==
    IF i <= Len(s) /\ IsSpace(CharAt(s, i)) THEN SkipSpace(s, i + 1) ELSE i

RECURSIVE SkipWord(_, _)
SkipWord(s, i) ==
    IF i <= Len(s) /\ ~IsSpace(CharAt(s, i)) THEN SkipWord(s, i + 1) ELSE i

\* str.split(maxsplit=n) on whitespace, scanning from position i; a negative
\* maxcount is "no limit".  Once the limit is reached the rest of the text,
\* less its leading whitespace, is the last part.
RECURSIVE SplitFrom(_, _, _)
SplitFrom(s, i, maxcount) ==
    LET j == SkipSpace(s, i) IN
    IF j > Len(s) THEN <<>>
    ELSE IF maxcount = 0 THEN <<SubSeq(s, j, Len(s))>>
    ELSE LET k == SkipWord(s, j) IN
         <<SubSeq(s, j, k - 1)>> \o SplitFrom(s, k, maxcount - 1)

NoLimit == -1

Split(s) == SplitFrom(s, 1, NoLimit)

StartsWith(s, prefix) ==
    Len(s) >= Len(prefix) /\ SubSeq(s, 1, Len(prefix)) = prefix

\* s[n:]
SliceFrom(s, n) == SubSeq(s, n + 1, Len(s))

\* s[:n]
SliceTo(s, n) == IF Len(s) <= n THEN s ELSE SubSeq(s, 1, n)

RECURSIVE LastNonSpace(_, _)
LastNonSpace(s, i) ==
    IF i >= 1 /\ IsSpace(CharAt(s, i)) THEN LastNonSpace(s, i - 1) ELSE i

Strip(s) == SubSeq(s, SkipSpace(s, 1), LastNonSpace(s, Len(s)))

\* Text split at every occurrence of the one-character separator sep.
RECURSIVE FieldsFrom(_, _, _, _)
FieldsFrom(s, sep, i, begin) ==
    IF i > Len(s) THEN <<SubSeq(s, begin, Len(s))>>
    ELSE IF CharAt(s, i) = sep
         THEN <<SubSeq(s, begin, i - 1)>> \o FieldsFrom(s, sep, i + 1, i + 1)
         ELSE FieldsFrom(s, sep, i + 1, begin)

Fields(s, sep) == FieldsFrom(s, sep, 1, 1)

-----------------------------------------------------------------------------
(* datetime *)

Digits == <<"0", "1", "2", "3", "4", "5", "6", "7", "8", "9">>

IsDigit(c) == \E d \in 1..10 : Digits[d] = c

DigitValue(c) == (CHOOSE d \in 1..10 : Digits[d] = c) - 1

AllDigits(s) == Len(s) > 0 /\ \A i \in 1..Len(s) : IsDigit(CharAt(s, i))

RECURSIVE NumberUpTo(_, _)
NumberUpTo(s, n) ==
    IF n = 0 THEN 0 ELSE 10 * NumberUpTo(s, n - 1) + DigitValue(CharAt(s, n))

Number(s) == NumberUpTo(s, Len(s))

IsLeap(y) == y % 4 = 0 /\ (y % 100 # 0 \/ y % 400 = 0)

DaysInMonth(y, m) ==
    IF m = 2 THEN (IF IsLeap(y) THEN 29 ELSE 28)
    ELSE IF m \in {4, 6, 9, 11} THEN 30 ELSE 31

RECURSIVE DaysBeforeMonth(_, _)
DaysBeforeMonth(y, m) ==
    IF m <= 1 THEN 0 ELSE DaysBeforeMonth(y, m - 1) + DaysInMonth(y, m - 1)

DaysBeforeYear(y) ==
    (y - 1) * 365 + ((y - 1) \div 4) - ((y - 1) \div 100) + ((y - 1) \div 400)

\* Proleptic Gregorian ordinal of a date, as datetime.toordinal().
Ordinal(t) == DaysBeforeYear(t.year) + DaysBeforeMonth(t.year, t.month) + t.day

\* A one- or two-digit field of the format with a value in lo..hi.
FieldOk(s, lo, hi) ==
    AllDigits(s) /\ Len(s) <= 2 /\ Number(s) >= lo /\ Number(s) <= hi

\* datetime.strptime(f"{rdate} {rtime}", "%Y/%m/%d %H:%M:%S"), with
\* ParseError for every exception it raises.  The format admits a second of
\* 60 or 61, which the datetime constructor then rejects.
strptime(rdate, rtime) ==
    LET d == Fields(rdate, "/")
        t == Fields(rtime, ":")
    IN  IF /\ Len(d) = 3 /\ Len(t) = 3
           /\ AllDigits(d[1]) /\ Len(d[1]) = 4 /\ Number(d[1]) >= 1
           /\ FieldOk(d[2], 1, 12)
           /\ FieldOk(d[3], 1, 31)
           /\ FieldOk(t[1], 0, 23)
           /\ FieldOk(t[2], 0, 59)
           /\ FieldOk(t[3], 0, 59)
           /\ Number(d[3]) <= DaysInMonth(Number(d[1]), Number(d[2]))
        THEN [year |-> Number(d[1]), month |-> Number(d[2]), day |-> Number(d[3]),
              hour |-> Number(t[1]), minute |-> Number(t[2]), second |-> Number(t[3])]
        ELSE ParseError

Pad2(n) == IF n < 10 THEN "0" \o ToString(n) ELSE ToString(n)

\* t.strftime("%Y-%m-%d %H:%M:%S")
strftime(t) ==
    ToString(t.year) \o "-" \o Pad2(t.month) \o "-" \o Pad2(t.day) \o " "
        \o Pad2(t.hour) \o ":" \o Pad2(t.minute) \o ":" \o Pad2(t.second)

SecondsOfDay(t) == (t.hour * 60 + t.minute) * 60 + t.second

\* The difference taken the wrong way round.
TotalSecondsReversed(a, b) ==
    (Ordinal(b) - Ordinal(a)) * 86400 + SecondsOfDay(b) - SecondsOfDay(a)

\* (a - b).total_seconds(), a whole number of seconds.
TotalSeconds(a, b) ==
    (Ordinal(a) - Ordinal(b)) * 86400 + SecondsOfDay(a) - SecondsOfDay(b)

\* The seconds written as a whole number.
FloatStrWhole(n) == ToString(n)

\* str() of a float holding the whole number n.
FloatStr(n) == ToString(n) \o ".0"

-----------------------------------------------------------------------------
(* The script's literals *)

Header == <<"datetime", "datacenter", "request", "filename", "status", "seconds">>

MaxSplit == 2
MinParts == 3
DatacenterIndex == 3
RequestIndex == 8
FilePrefixLen == 16
StatusIndex == 2
StatusLen == 4

StartPrefix == "Running getData"
FilePrefix == "Retrieving file "
StatusPrefix == "Returning status"

-----------------------------------------------------------------------------
(* The log lines the model reads.  Each is a line as file iteration yields *)
(* it, newline included.                                                   *)

LineStartA == "2024/01/15 10:00:00 Running getData req from site DC1 to node X for REQ123 now\n"
LineStartB == "2024/01/15 10:00:03 Running getData for DC2 user u1 with id REQ_B\n"
LineFile1 == "2024/01/15 10:00:02 Retrieving file /data/abc.dat\n"
LineFile2 == "2024/01/15 10:00:04 Retrieving file   /data/def.dat \n"
LineStatus1 == "2024/01/15 10:00:05 Returning status 2000 OK\n"
LineStatus2 == "2024/01/15 09:59:58 Returning status 404\n"
LineStatus3 == "2024/01/16 00:00:01 Returning status 20000-partial retry later\n"
LineShort == "Running getData\n"
LineBadTime == "2024/02/30 10:00:01 Returning status 2000 OK\n"
LineOther == "2024/01/15 10:00:01 Connecting to DC1 Returning status 2000\n"
LineBadStart == "2024/01/15 10:00:06 Running getData for DC3 user\n"
LineBadStatus == "2024/01/15 10:00:07 Returning status\n"

Lines ==
    { LineStartA, LineStartB, LineFile1, LineFile2, LineStatus1, LineStatus2, LineStatus3,
      LineShort, LineBadTime, LineOther, LineBadStart, LineBadStatus }

-----------------------------------------------------------------------------
(* One iteration of the loop, step by step *)

\* parts=record.split(maxsplit=2), for each line the log can hold.
PartsOf == [record \in Lines |-> SplitFrom(record, 1, MaxSplit)]

Parts(record) == PartsOf[record]

\* if len(parts) < 3: continue
TooShort(record) == Len(Parts(record)) < MinParts

\* rdate,rtime,message=parts; logtime=strptime(...), for each line with 3 parts.
LogTimeOf ==
    [record \in Lines |->
        IF TooShort(record) THEN ParseError
        ELSE strptime(Parts(record)[1], Parts(record)[2])]

LogTime(record) == LogTimeOf[record]

Message(record) == Parts(record)[3]

\* parts=message.split(), for each line with a message.
MessagePartsOf ==
    [record \in Lines |-> IF TooShort(record) THEN <<>> ELSE Split(Message(record))]

MessageParts(record) == MessagePartsOf[record]

\* A line that reaches the classification of its message.
Timestamped(record) == ~TooShort(record) /\ LogTime(record) # ParseError

IsStart(message) == StartsWith(message, StartPrefix)

IsFile(message) == ~IsStart(message) /\ StartsWith(message, FilePrefix)

IsStatus(message) ==
    ~IsStart(message) /\ ~StartsWith(message, FilePrefix) /\ StartsWith(message, StatusPrefix)

\* parts[i] of a list: the element, or IndexError.
HasIndex(parts, i) == i < Len(parts)

\* The index taken as counting from 1.
ItemFromOne(parts, i) == parts[i]

Item(parts, i) == parts[i + 1]

\* A guard that lets no completion marker through.
IsPendingNever(dc) == FALSE

\* A guard that lets every completion marker through.
IsPendingAlways(dc) == TRUE

\* if datacenter is not None
IsPending(dc) == dc # None

\* The row written for a completed request.
Row(st, dc, req, fn, stat, logtime) ==
    <<strftime(st), dc, req, fn, stat, FloatStr(TotalSeconds(logtime, st))>>

\* The value of filename after a start marker: the script does not assign it.
FilenameAfterStart(fn) == fn

\* datacenter left as it is after a row is written.
DatacenterNotCleared == datacenter

\* The values assigned after a row is written.
DatacenterAfterRow == None

\* filename left as it is after a row is written.
FilenameNotCleared == filename

FilenameAfterRow == ""

-----------------------------------------------------------------------------
(* The state machine *)

Init ==
    /\ pc = "open"
    /\ log = <<>>
    /\ out = <<>>
    /\ starttime = NoTime
    /\ datacenter = Unbound
    /\ request = Unbound
    /\ filename = Unbound
    /\ status = Unbound

\* datacenter initialised to the empty string.
OpenDatacenterEmpty ==
    /\ pc = "open"
    /\ pc' = "loop"
    /\ out' = Append(out, Header)
    /\ datacenter' = ""
    /\ filename' = ""
    /\ UNCHANGED <<log, starttime, request, status>>

\* The files opened without the header row.
OpenWithoutHeader ==
    /\ pc = "open"
    /\ pc' = "loop"
    /\ datacenter' = None
    /\ filename' = ""
    /\ UNCHANGED <<log, out, starttime, request, status>>

\* Open both files, write the header row, initialise datacenter and filename.
Open ==
    /\ pc = "open"
    /\ pc' = "loop"
    /\ out' = Append(out, Header)
    /\ datacenter' = None
    /\ filename' = ""
    /\ UNCHANGED <<log, starttime, request, status>>

CanRead == pc = "loop" /\ Len(log) < MaxLines

\* len(parts) < 3: continue
SkipShort(record) ==
    /\ CanRead
    /\ TooShort(record)
    /\ log' = Append(log, record)
    /\ UNCHANGED <<pc, out, starttime, datacenter, request, filename, status>>

\* A parse failure that drops the pending request.
SkipBadTimeDropsPending(record) ==
    /\ CanRead
    /\ ~TooShort(record)
    /\ LogTime(record) = ParseError
    /\ log' = Append(log, record)
    /\ datacenter' = None
    /\ UNCHANGED <<pc, out, starttime, request, filename, status>>

\* strptime raised: continue
SkipBadTime(record) ==
    /\ CanRead
    /\ ~TooShort(record)
    /\ LogTime(record) = ParseError
    /\ log' = Append(log, record)
    /\ UNCHANGED <<pc, out, starttime, datacenter, request, filename, status>>

\* A start marker whose missing tokens are passed over without an error.
StartMarkerTolerant(record) ==
    /\ CanRead
    /\ Timestamped(record)
    /\ IsStart(Message(record))
    /\ log' = Append(log, record)
    /\ starttime' = LogTime(record)
    /\ LET parts == MessageParts(record) IN
        /\ datacenter' = IF HasIndex(parts, DatacenterIndex)
                         THEN Item(parts, DatacenterIndex) ELSE datacenter
        /\ request' = IF HasIndex(parts, RequestIndex)
                      THEN Item(parts, RequestIndex) ELSE request
    /\ filename' = FilenameAfterStart(filename)
    /\ UNCHANGED <<pc, out, status>>

\* A start marker that is ignored while a request is pending.
StartMarkerKeepsPending(record) ==
    /\ CanRead
    /\ Timestamped(record)
    /\ IsStart(Message(record))
    /\ log' = Append(log, record)
    /\ LET parts == MessageParts(record)
           keep == IsPending(datacenter)
       IN
        /\ starttime' = IF keep THEN starttime ELSE LogTime(record)
        /\ datacenter' = IF HasIndex(parts, DatacenterIndex) /\ ~keep
                         THEN Item(parts, DatacenterIndex) ELSE datacenter
        /\ request' = IF HasIndex(parts, RequestIndex) /\ ~keep
                      THEN Item(parts, RequestIndex) ELSE request
        /\ pc' = IF HasIndex(parts, RequestIndex) THEN "loop" ELSE "error"
    /\ filename' = FilenameAfterStart(filename)
    /\ UNCHANGED <<out, status>>

\* message.startswith("Running getData").  The assignments run in order, so an
\* IndexError leaves the earlier ones done and ends the run.
StartMarker(record) ==
    /\ CanRead
    /\ Timestamped(record)
    /\ IsStart(Message(record))
    /\ log' = Append(log, record)
    /\ starttime' = LogTime(record)
    /\ LET parts == MessageParts(record) IN
        /\ datacenter' = IF HasIndex(parts, DatacenterIndex)
                         THEN Item(parts, DatacenterIndex) ELSE datacenter
        /\ request' = IF HasIndex(parts, RequestIndex)
                      THEN Item(parts, RequestIndex) ELSE request
        /\ pc' = IF HasIndex(parts, RequestIndex) THEN "loop" ELSE "error"
    /\ filename' = FilenameAfterStart(filename)
    /\ UNCHANGED <<out, status>>

\* message.startswith("Retrieving file ")
FileMarker(record) ==
    /\ CanRead
    /\ Timestamped(record)
    /\ IsFile(Message(record))
    /\ log' = Append(log, record)
    /\ filename' = Strip(SliceFrom(Message(record), FilePrefixLen))
    /\ UNCHANGED <<pc, out, starttime, datacenter, request, status>>

\* message.startswith("Returning status")
StatusMarker(record) ==
    /\ CanRead
    /\ Timestamped(record)
    /\ IsStatus(Message(record))
    /\ log' = Append(log, record)
    /\ LET parts == MessageParts(record)
           logtime == LogTime(record)
       IN  IF ~HasIndex(parts, StatusIndex)
           THEN \* parts[2] raises IndexError
                /\ pc' = "error"
                /\ UNCHANGED <<out, starttime, datacenter, request, filename, status>>
           ELSE /\ status' = SliceTo(Item(parts, StatusIndex), StatusLen)
                /\ IF ~IsPending(datacenter)
                   THEN UNCHANGED <<pc, out, starttime, datacenter, request, filename>>
                   ELSE IF starttime = NoTime \/ request = Unbound
                   THEN \* reading an unassigned local raises UnboundLocalError
                        /\ pc' = "error"
                        /\ UNCHANGED <<out, starttime, datacenter, request, filename>>
                   ELSE /\ out' = Append(out, Row(starttime, datacenter, request,
                                                  filename, status', logtime))
                        /\ datacenter' = DatacenterAfterRow
                        /\ filename' = FilenameAfterRow
                        /\ UNCHANGED <<pc, starttime, request>>

\* A message of no marker kind that forgets the stored filename.
OtherMessageClearsFilename(record) ==
    /\ CanRead
    /\ Timestamped(record)
    /\ ~IsStart(Message(record))
    /\ ~StartsWith(Message(record), FilePrefix)
    /\ ~StartsWith(Message(record), StatusPrefix)
    /\ log' = Append(log, record)
    /\ filename' = ""
    /\ UNCHANGED <<pc, out, starttime, datacenter, request, status>>

\* Any other message: the loop goes on to the next line.
OtherMessage(record) ==
    /\ CanRead
    /\ Timestamped(record)
    /\ ~IsStart(Message(record))
    /\ ~StartsWith(Message(record), FilePrefix)
    /\ ~StartsWith(Message(record), StatusPrefix)
    /\ log' = Append(log, record)
    /\ UNCHANGED <<pc, out, starttime, datacenter, request, filename, status>>

\* The log is exhausted: the loop ends and both files are closed.
Finish ==
    /\ pc = "loop"
    /\ pc' = "done"
    /\ UNCHANGED <<log, out, starttime, datacenter, request, filename, status>>

Next ==
    \/ Open
    \/ \E record \in Lines : SkipShort(record)
    \/ \E record \in Lines : SkipBadTime(record)
    \/ \E record \in Lines : StartMarker(record)
    \/ \E record \in Lines : FileMarker(record)
    \/ \E record \in Lines : StatusMarker(record)
    \/ \E record \in Lines : OtherMessage(record)
    \/ Finish

Spec == Init /\ [][Next]_vars

-----------------------------------------------------------------------------
(* The same loop as a function of the lines read: the locals after the     *)
(* header is written, the body of the loop applied to one line, and the    *)
(* whole pass over a list of lines.                                        *)

AfterOpen ==
    [pc |-> "loop", out |-> <<Header>>, starttime |-> NoTime, datacenter |-> None,
     request |-> Unbound, filename |-> "", status |-> Unbound]

Body(st, record) ==
    IF TooShort(record) \/ LogTime(record) = ParseError THEN st
    ELSE LET message == Message(record)
             parts == MessageParts(record)
             logtime == LogTime(record)
         IN  IF IsStart(message) THEN
                 [st EXCEPT !.starttime = logtime,
                            !.datacenter = IF HasIndex(parts, DatacenterIndex)
                                           THEN Item(parts, DatacenterIndex) ELSE @,
                            !.request = IF HasIndex(parts, RequestIndex)
                                        THEN Item(parts, RequestIndex) ELSE @,
                            !.pc = IF HasIndex(parts, RequestIndex) THEN "loop" ELSE "error"]
             ELSE IF IsFile(message) THEN
                 [st EXCEPT !.filename = Strip(SliceFrom(message, FilePrefixLen))]
             ELSE IF IsStatus(message) THEN
                 IF ~HasIndex(parts, StatusIndex) THEN [st EXCEPT !.pc = "error"]
                 ELSE LET stat == SliceTo(Item(parts, StatusIndex), StatusLen) IN
                      IF st.datacenter = None THEN [st EXCEPT !.status = stat]
                      ELSE IF st.starttime = NoTime \/ st.request = Unbound
                      THEN [st EXCEPT !.status = stat, !.pc = "error"]
                      ELSE [st EXCEPT !.status = stat,
                                      !.out = Append(@, Row(st.starttime, st.datacenter,
                                                            st.request, st.filename, stat, logtime)),
                                      !.datacenter = None,
                                      !.filename = ""]
             ELSE st

RECURSIVE Replay(_)
Replay(lg) ==
    IF lg = <<>> THEN AfterOpen
    ELSE LET st == Replay(SubSeq(lg, 1, Len(lg) - 1))
         IN  IF st.pc = "loop" THEN Body(st, lg[Len(lg)]) ELSE st

-----------------------------------------------------------------------------
(* Vocabulary of the properties: what the lines read so far were *)

Last(s) == s[Len(s)]

LineKind ==
    [r \in Lines |->
        IF ~Timestamped(r) THEN "skipped"
        ELSE IF IsStart(Message(r)) THEN "start"
        ELSE IF IsFile(Message(r)) THEN "file"
        ELSE IF IsStatus(Message(r)) THEN "status"
        ELSE "other"]

\* A marker whose message has every token the script indexes.
WellFormed ==
    [r \in Lines |->
        CASE LineKind[r] = "start" -> HasIndex(MessageParts(r), RequestIndex)
          [] LineKind[r] = "status" -> HasIndex(MessageParts(r), StatusIndex)
          [] OTHER -> TRUE]

IndexesOf(lg, kind) == {i \in 1..Len(lg) : LineKind[lg[i]] = kind}

\* Position in lg of the last line of the kind, 0 when there is none.
LastIndexOf(lg, kind) ==
    LET S == IndexesOf(lg, kind)
    IN  IF S = {} THEN 0 ELSE CHOOSE i \in S : \A j \in S : j <= i

\* This step reads one line of the log (the line is Last(log')).
Reading == pc = "loop" /\ Len(log') = Len(log) + 1

ReadingKind(kind) == Reading /\ LineKind[Last(log')] = kind

\* This step writes a row for a completed request.
Emits == pc = "loop" /\ out' # out

\* The rows after the header.
Records == SubSeq(out, 2, Len(out))

-----------------------------------------------------------------------------
(* C1 *)

\* A completion marker read when no start marker was read before it: nothing
\* is written and the pending state is as it was.
C1_NoStartNoRow ==
    ReadingKind("status") /\ IndexesOf(log, "start") = {}
        => out' = out /\ UNCHANGED pending

\* A row is written only by a step that reads a completion marker while
\* datacenter is not None, a start marker having been read after every
\* completion marker read so far.
C1_RowOnlyWhenPending ==
    Emits => /\ ReadingKind("status")
             /\ IsPending(datacenter)
             /\ LastIndexOf(log, "start") > LastIndexOf(log, "status")
             /\ Len(out') = Len(out) + 1

\* C1 as claimed: a record is emitted only while a completion marker is
\* processed with a request pending; a completion marker with no start marker
\* before it emits nothing and the lines after it are processed as usual (the
\* run goes on reading).
C1_AsClaimed ==
    [][ /\ C1_RowOnlyWhenPending
        /\ C1_NoStartNoRow
        /\ (ReadingKind("status") /\ IndexesOf(log, "start") = {} => pc' = "loop") ]_vars

\* C1, amended: a record is emitted only while a completion marker is
\* processed with a request pending; a completion marker with no start marker
\* before it emits nothing and leaves the pending state alone, and when its
\* message has at least 3 tokens the run goes on reading the lines after it
\* (with fewer the run ends there with an IndexError).
C1_EmitOnlyWhenPending ==
    [][ /\ C1_RowOnlyWhenPending
        /\ C1_NoStartNoRow
        /\ (ReadingKind("status") /\ IndexesOf(log, "start") = {}
               => pc' = (IF WellFormed[Last(log')] THEN "loop" ELSE "error")) ]_vars

\* A run whose first line is a completion marker and that later wrote a row.
C1_Witness ==
    /\ Len(log) >= 3
    /\ LineKind[log[1]] = "status"
    /\ Len(out) = 2
    /\ pc = "loop"

-----------------------------------------------------------------------------
(* C2 *)

\* Text of a file marker, as the script stores it.
FileText(r) == Strip(SliceFrom(Message(r), FilePrefixLen))

\* The filename the claim gives a record completed after reading lg: the text
\* of the last file marker after the last start marker, empty without one.
ClaimedFilename(lg) ==
    LET s == LastIndexOf(lg, "start")
        f == LastIndexOf(lg, "file")
    IN  IF f > s THEN FileText(lg[f]) ELSE ""

\* C2: a start marker resets filename to empty, and the filename of every
\* emitted record is the text of the most recent file marker read after the
\* record's own start marker, empty when there is none.
C2_FilenameSinceStart ==
    [][ /\ (ReadingKind("start") => filename' = "")
        /\ (Emits => Last(out')[4] = ClaimedFilename(log)) ]_vars

-----------------------------------------------------------------------------
(* C3 *)

ScenarioA == <<LineStartA, LineFile1, LineStatus1>>

\* C3 as claimed: scenario A yields one record with datacenter DC1 and
\* request REQ123.
C3_AsClaimed ==
    log = ScenarioA =>
        Records = << <<"2024-01-15 10:00:00", "DC1", "REQ123", "/data/abc.dat", "2000", "5.0">> >>

\* C3, amended: scenario A yields exactly one record, with start time
\* 2024-01-15 10:00:00, datacenter "from" and request "X" (tokens 3 and 8 of
\* the start message), filename /data/abc.dat, status 2000 and elapsed 5.0.
C3_ScenarioA ==
    log = ScenarioA =>
        Records = << <<"2024-01-15 10:00:00", "from", "X", "/data/abc.dat", "2000", "5.0">> >>

C3_Witness == log = ScenarioA /\ pc = "done"

-----------------------------------------------------------------------------
(* C4 *)

NumRecords == Len(out) - 1

\* C4: after every processed prefix the number of records is at most the
\* number of completion markers read and at most the number of start markers
\* read, and when a record is written more start markers have been read than
\* records were written before it.
C4_RecordCounts ==
    [][ /\ pc' # "open" =>
              /\ NumRecords' <= Cardinality(IndexesOf(log', "status"))
              /\ NumRecords' <= Cardinality(IndexesOf(log', "start"))
        /\ Emits => Cardinality(IndexesOf(log, "start")) > NumRecords ]_vars

\* Two records written, from two start markers and two completion markers.
C4_Witness ==
    /\ NumRecords = 2
    /\ Cardinality(IndexesOf(log, "start")) = 2
    /\ Cardinality(IndexesOf(log, "status")) = 2

-----------------------------------------------------------------------------
(* C5 *)

\* What a well-formed start marker carries.
StartTimeOf(r) == strftime(LogTime(r))

DatacenterOf(r) == Item(MessageParts(r), DatacenterIndex)

RequestOf(r) == Item(MessageParts(r), RequestIndex)

\* The lines read end in an abandoned request: the last start marker B comes
\* after a start marker A for a different request, with no completion marker
\* after A.
Abandoned(lg) ==
    LET b == LastIndexOf(lg, "start")
    IN  \E a \in IndexesOf(lg, "start") :
            /\ a < b
            /\ LastIndexOf(lg, "status") < a
            /\ RequestOf(lg[a]) # RequestOf(lg[b])

\* The row written carries the start time, datacenter and request of the
\* last start marker read.
RowOfLastStart ==
    LET b == log[LastIndexOf(log, "start")]
        row == Last(out')
    IN  row[1] = StartTimeOf(b) /\ row[2] = DatacenterOf(b) /\ row[3] = RequestOf(b)

\* C5 as claimed: after start A then start B with no completion marker
\* between, the next completion marker emits exactly one record, carrying B's
\* start time, datacenter and request id, and none carries A's.
C5_AsClaimed ==
    [][ /\ (ReadingKind("status") /\ Abandoned(log)
               => Len(out') = Len(out) + 1 /\ RowOfLastStart)
        /\ (Emits => RowOfLastStart) ]_vars

\* C5, amended: after start A then start B with no completion marker between,
\* the next completion marker, when its message has at least 3 tokens, emits
\* exactly one record, carrying B's start time, datacenter and request id
\* (with fewer tokens it emits nothing and ends the run); every record
\* carries the request id of the last start marker read before it, so none
\* carries A's on account of A's start marker.
C5_AbandonedStart ==
    [][ /\ (ReadingKind("status") /\ Abandoned(log)
               => IF WellFormed[Last(log')]
                  THEN Len(out') = Len(out) + 1 /\ RowOfLastStart
                  ELSE out' = out /\ pc' = "error")
        /\ (Emits => RowOfLastStart) ]_vars

\* Start A, start B, then a completion marker that wrote B's record.
C5_Witness ==
    /\ Len(log) >= 3
    /\ LineKind[Last(log)] = "status"
    /\ Abandoned(SubSeq(log, 1, Len(log) - 1))
    /\ NumRecords = 1
    /\ out[2][3] = RequestOf(log[LastIndexOf(log, "start")])

-----------------------------------------------------------------------------
(* C6 *)

\* Seconds from 1970-01-01 00:00:00 to t, by the days-from-civil count.
EpochSeconds(t) ==
    LET y == IF t.month <= 2 THEN t.year - 1 ELSE t.year
        era == y \div 400
        yoe == y - era * 400
        mp == IF t.month > 2 THEN t.month - 3 ELSE t.month + 9
        doy == ((153 * mp + 2) \div 5) + t.day - 1
        doe == yoe * 365 + (yoe \div 4) - (yoe \div 100) + doy
        days == era * 146097 + doe - 719468
    IN  days * 86400 + t.hour * 3600 + t.minute * 60 + t.second

\* The timestamps of the lines that have one never go back.
NonDecreasing(lg) ==
    \A i, j \in 1..Len(lg) :
        i < j /\ LineKind[lg[i]] # "skipped" /\ LineKind[lg[j]] # "skipped"
            => EpochSeconds(LogTime(lg[i])) <= EpochSeconds(LogTime(lg[j]))

\* C6: the elapsed seconds of every record are the completion line's
\* timestamp minus that of the last start marker read before it, its start
\* time is that start marker's timestamp, and the elapsed seconds are not
\* negative when the timestamps read are in non-decreasing order.
C6_Elapsed ==
    [][ Emits =>
          LET b == log[LastIndexOf(log, "start")]
              c == Last(log')
              row == Last(out')
              diff == EpochSeconds(LogTime(c)) - EpochSeconds(LogTime(b))
          IN  /\ row[6] = ToString(diff) \o ".0"
              /\ row[1] = StartTimeOf(b)
              /\ (NonDecreasing(log') => diff >= 0 /\ ~StartsWith(row[6], "-")) ]_vars

\* A record with a positive elapsed time, written for lines in time order.
C6_Witness ==
    /\ NumRecords >= 1
    /\ NonDecreasing(log)
    /\ LineKind[Last(log)] = "status"
    /\ Last(out)[6] \notin {"0.0", "-0.0"}

-----------------------------------------------------------------------------
(* C7 *)

Unskipped(lg) == SelectSeq(lg, LAMBDA r : LineKind[r] # "skipped")

\* C7: a line with fewer than 3 parts or without a valid timestamp writes
\* nothing, raises nothing and changes no local; the rows written for the
\* lines read are those written for the same lines with every such line
\* taken out.
C7_SkippedLines ==
    [][ /\ (ReadingKind("skipped")
               => UNCHANGED <<pc, out, starttime, datacenter, request, filename, status>>)
        /\ (pc' # "open"
               => /\ out' = Replay(log').out
                  /\ out' = Replay(Unskipped(log')).out) ]_vars

\* A record written for a request with both kinds of skipped line between
\* its start and its completion.
C7_Witness ==
    /\ NumRecords = 1
    /\ Len(log) = 4
    /\ LineKind[log[1]] = "start"
    /\ {log[2], log[3]} = {LineShort, LineBadTime}
    /\ LineKind[log[4]] = "status"

-----------------------------------------------------------------------------
(* C8 *)

Prefix(lg, n) == SubSeq(lg, 1, n)

\* The positions of the lines of lg at which a row is written.
EmitPositions(lg) ==
    {i \in 1..Len(lg) : Len(Replay(Prefix(lg, i)).out) > Len(Replay(Prefix(lg, i - 1)).out)}

\* A row was written for lg after every start marker in it.
RowSinceLastStart(lg) ==
    \E i \in EmitPositions(lg) : \A k \in IndexesOf(lg, "start") : k < i

\* C8: writing a row sets datacenter to None and filename to empty; between
\* two rows there is always a start marker, and a completion marker read
\* after a row with no start marker in between writes nothing.
C8_OneRowPerStart ==
    [][ /\ (Emits => datacenter' = None /\ filename' = "")
        /\ (pc' # "open" =>
              /\ Len(out') = 1 + Cardinality(EmitPositions(log'))
              /\ \A i, j \in EmitPositions(log') :
                    i < j => \E k \in IndexesOf(log', "start") : i < k /\ k < j)
        /\ (ReadingKind("status") /\ RowSinceLastStart(log) => out' = out) ]_vars

\* A row written at the second line, then a further completion marker.
C8_Witness ==
    /\ Len(log) = 3
    /\ EmitPositions(log) = {2}
    /\ filename = ""
    /\ LineKind[log[3]] = "status"
    /\ pc = "loop"

-----------------------------------------------------------------------------
(* C9 *)

\* A completion marker read while datacenter is None writes nothing and
\* changes no local of the pending request.
C9_NothingDone == out' = out /\ UNCHANGED pending

\* C9 as claimed: a "Returning status" line read while no request is pending
\* emits nothing, raises no error and leaves the pending state unchanged.
C9_AsClaimed ==
    [][ ReadingKind("status") /\ datacenter = None
            => C9_NothingDone /\ pc' = "loop" ]_vars

\* C9, amended: a "Returning status" line read while no request is pending
\* emits nothing and leaves the pending state unchanged; no error is raised
\* when its message has at least 3 tokens, and an IndexError ends the run
\* when it has fewer.
C9_DroppedCompletion ==
    [][ ReadingKind("status") /\ datacenter = None
            => /\ C9_NothingDone
               /\ pc' = (IF WellFormed[Last(log')] THEN "loop" ELSE "error") ]_vars

\* A completion marker dropped with a filename stored and no request pending.
C9_Witness ==
    /\ pc = "loop"
    /\ Len(log) >= 2
    /\ LineKind[Last(log)] = "status"
    /\ IndexesOf(log, "start") = {}
    /\ filename # ""
    /\ out = <<Header>>

-----------------------------------------------------------------------------
(* C10 *)

\* The status field a completion marker gives its row.
StatusOf(r) == SliceTo(Item(MessageParts(r), StatusIndex), StatusLen)

\* C10: the header is written once, as the first row, whatever the input;
\* every later write appends one row, for the completion marker being read,
\* and leaves the rows written before as they were.
C10_HeaderThenRows ==
    [][ /\ (pc = "open" => out' = <<Header>>)
        /\ (pc # "open" =>
              \/ out' = out
              \/ /\ Len(out') = Len(out) + 1
                 /\ Prefix(out', Len(out)) = out
                 /\ ReadingKind("status")
                 /\ Last(out')[5] = StatusOf(Last(log')))
        /\ (pc' # "open" =>
              /\ out'[1] = Header
              /\ \A i \in 2..Len(out') : out'[i] # Header
              /\ \A n \in 0..Len(log') :
                    LET sofar == Replay(Prefix(log', n)).out
                    IN  Len(sofar) <= Len(out') /\ Prefix(out', Len(sofar)) = sofar) ]_vars

\* The pass has ended with two different rows after the header.
C10_Witness ==
    /\ pc = "done"
    /\ NumRecords = 2
    /\ out[2] # out[3]

-----------------------------------------------------------------------------
(* C11 *)

\* A timestamped marker line whose message lacks a token the script indexes.
MalformedMarker(r) == LineKind[r] \in {"start", "status"} /\ ~WellFormed[r]

\* C11: a malformed marker is not passed over like a line without a
\* timestamp: reading it ends the run in an error, writing no row; from then
\* on no line is read and no row is written, and the rows written before it
\* stay as they were.
C11_MalformedMarker ==
    [][ /\ (Reading /\ MalformedMarker(Last(log')) => pc' = "error" /\ out' = out)
        /\ pc # "error"
        /\ (pc' = "error" =>
              /\ MalformedMarker(Last(log'))
              /\ out' = Replay(Prefix(log', Len(log') - 1)).out) ]_vars

\* A run that wrote a row and then ended on a malformed marker with lines
\* still to read.
C11_Witness ==
    /\ pc = "error"
    /\ NumRecords = 1
    /\ Len(log) = 3
    /\ MalformedMarker(log[3])

-----------------------------------------------------------------------------
(* C12 *)

\* The n-th whitespace-separated token of the message of r, counted from 1.
Token(r, n) == Split(Message(r))[n]

\* The first n characters of s, all of s when it is shorter.
FirstChars(s, n) == IF Len(s) < n THEN s ELSE SubSeq(s, 1, n)

\* C12: a well-formed start marker sets datacenter to the 4th token of its
\* message and request to the 9th; a row's status is the first 4 characters
\* of the 3rd token of its completion marker's message, and its datacenter
\* and request are those of the last start marker read.
C12_TokenPositions ==
    [][ /\ (ReadingKind("start") /\ WellFormed[Last(log')]
               => /\ datacenter' = Token(Last(log'), 4)
                  /\ request' = Token(Last(log'), 9))
        /\ (Emits =>
              LET b == log[LastIndexOf(log, "start")]
                  row == Last(out')
              IN  /\ row[5] = FirstChars(Token(Last(log'), 3), 4)
                  /\ row[2] = Token(b, 4)
                  /\ row[3] = Token(b, 9)
                  /\ row[2] = datacenter /\ row[3] = request) ]_vars

\* Rows were written with a status cut to 4 characters and with a status
\* shorter than that.
C12_Witness ==
    /\ NumRecords = 2
    /\ out[2][2] = "DC2" /\ out[2][3] = "REQ_B"
    /\ {out[2][5], out[3][5]} = {"2000", "404"}
    /\ LineStatus3 \in {log[i] : i \in 1..Len(log)}

-----------------------------------------------------------------------------
(* C13 *)

\* Every marker line of lg has the tokens the script indexes.
AllWellFormed(lg) == \A i \in 1..Len(lg) : WellFormed[lg[i]]

\* The completion markers of lg that are the first one after some start
\* marker.
FirstCompletions(lg) ==
    {j \in IndexesOf(lg, "status") :
        \E i \in IndexesOf(lg, "start") :
            i < j /\ \A k \in IndexesOf(lg, "status") : ~(i < k /\ k < j)}

\* C13: a well-formed completion marker read while a request is pending
\* writes exactly one row in the step that reads it; for well-formed lines
\* the number of rows is the number of completion markers that are the first
\* after some start marker.
C13_OneRowPerCompletion ==
    [][ /\ (ReadingKind("status") /\ WellFormed[Last(log')] /\ datacenter # None
               => /\ Len(out') = Len(out) + 1
                  /\ Prefix(out', Len(out)) = out
                  /\ pc' = "loop")
        /\ (pc' # "open" /\ AllWellFormed(log')
               => NumRecords' = Cardinality(FirstCompletions(log'))) ]_vars

\* One row for three completion markers after one start marker.
C13_Witness ==
    /\ Len(log) = 4
    /\ Cardinality(IndexesOf(log, "status")) = 3
    /\ Cardinality(FirstCompletions(log)) = 1
    /\ NumRecords = 1
    /\ LineKind[log[4]] = "status"
    /\ AllWellFormed(log)

-----------------------------------------------------------------------------
(* C14 *)

\* The marker prefixes the message of r begins with.
PrefixesOf(r) ==
    {p \in {StartPrefix, FilePrefix, StatusPrefix} : StartsWith(Message(r), p)}

\* The one branch the line just read has taken, told by what the step did:
\* only a start marker assigns starttime, only a file marker assigns filename
\* without writing a row, only a completion marker assigns status or ends
\* the run at parts[2].
BranchTaken(r) ==
    IF PrefixesOf(r) = {StartPrefix} THEN
        starttime' = LogTime(r) /\ UNCHANGED <<out, status>>
    ELSE IF PrefixesOf(r) = {FilePrefix} THEN
        /\ filename' = Strip(SubSeq(Message(r), Len(FilePrefix) + 1, Len(Message(r))))
        /\ UNCHANGED <<pc, out, starttime, datacenter, request, status>>
    ELSE IF PrefixesOf(r) = {StatusPrefix} THEN
        /\ UNCHANGED <<starttime, request>>
        /\ (pc' = "error" \/ status' = FirstChars(Token(r, 3), 4))
    ELSE
        /\ PrefixesOf(r) = {}
        /\ UNCHANGED <<pc, out, starttime, datacenter, request, filename, status>>

\* C14: a timestamped line takes at most one of the three marker branches,
\* the one of its message's prefix; a file marker changes filename alone and
\* writes nothing, a start marker writes nothing, and a message with none of
\* the prefixes changes nothing and writes nothing.
C14_OneBranch ==
    [][ Reading /\ LineKind[Last(log')] # "skipped"
            => /\ Cardinality(PrefixesOf(Last(log'))) <= 1
               /\ BranchTaken(Last(log')) ]_vars

\* A file marker and a message of no marker kind read while a request is
\* pending, the file marker's text stored.
C14_Witness ==
    /\ pc = "loop"
    /\ Len(log) = 3
    /\ LineKind[log[1]] = "start"
    /\ LineKind[log[2]] = "file"
    /\ LineKind[log[3]] = "other"
    /\ datacenter # None
    /\ filename = "/data/def.dat"

-----------------------------------------------------------------------------
(* C15 *)

\* C15: while the run goes on, datacenter is not None only when starttime
\* and request have been assigned by a start marker; no run ends by reading
\* an unassigned local, whatever the log begins with.
C15_AssignedWhenPending ==
    /\ (pc \in {"loop", "done"} /\ datacenter # None
           => /\ starttime # NoTime
              /\ request # Unbound
              /\ IndexesOf(log, "start") # {}
              /\ starttime = LogTime(log[LastIndexOf(log, "start")])
              /\ request = Token(log[LastIndexOf(log, "start")], 9))
    /\ (pc = "error" => MalformedMarker(Last(log)))

\* A request pending in a run whose log began with a completion marker and a
\* file marker.
C15_Witness ==
    /\ pc = "loop"
    /\ Len(log) >= 3
    /\ LineKind[log[1]] = "status"
    /\ LineKind[log[2]] = "file"
    /\ datacenter \notin {None, Unbound}

-----------------------------------------------------------------------------
(* C16 *)

Suffix(lg, n) == SubSeq(lg, n + 1, Len(lg))

\* The rows written for lg after its first n lines.
RowsAfter(lg, n) ==
    SubSeq(Replay(lg).out, Len(Replay(Prefix(lg, n)).out) + 1, Len(Replay(lg).out))

\* C16: for every split of the lines read into P, whose last line wrote a
\* row, and S, the rows written while S was read are the rows a fresh run
\* writes for S alone, and the run ends in an error after S in the one case
\* when the fresh run does.
C16_FreshAfterRow ==
    pc # "open" =>
        /\ out = Replay(log).out
        /\ \A n \in EmitPositions(log) :
              LET fresh == Replay(Suffix(log, n))
              IN  /\ RowsAfter(log, n) = SubSeq(fresh.out, 2, Len(fresh.out))
                  /\ SubSeq(out, Len(out) - Len(fresh.out) + 2, Len(out))
                        = SubSeq(fresh.out, 2, Len(fresh.out))
                  /\ (pc = "error") = (fresh.pc = "error")
                  /\ datacenter = fresh.datacenter
                  /\ filename = fresh.filename

\* A row written by the first two lines, then a second request completed.
C16_Witness ==
    /\ Len(log) = 4
    /\ EmitPositions(log) = {2, 4}
    /\ out[2] # out[3]

====
